---- MODULE Spec2Model ----
(***************************************************************************)
(* afire: the per-connection read / dispatch / write loop of the HTTP      *)
(* server (src/lib/internal/handle.rs), the server configuration it reads  *)
(* (src/lib/server.rs) and the values it passes around (response.rs,       *)
(* error.rs, middleware.rs).                                               *)
(*                                                                         *)
(* Strings are modelled as TLA+ strings or as sequences of string pieces   *)
(* (a formatted text is the sequence of its pieces), a path as the         *)
(* sequence of its "/"-separated segments.                                 *)
(***************************************************************************)
EXTENDS Integers, Sequences, FiniteSets, TLC

\* ------------------------------------------------------------------ bounds

\* configuration calls (route, attach, error_handler) made before start
MaxSetup == 3

\* headers on a Response under construction
MaxHeaders == 3

\* requests read on all connections of the server with a RateLimiter
MaxRequests == 4
\* seconds the clock advances
MaxTime == 4
\* connections waiting in the pool
MaxQueue == 2
\* events sent on one channel
MaxEvents == 3
\* routes registered on the first server
MaxRoutes == 3

\* ------------------------------------------------------------------ values

\* Method (the verbs the peers of the model use, and ANY for routes)
GET == "GET"
POST == "POST"
ANY == "ANY"
Methods == {GET, POST}

\* error.rs: ParseError
ParseErrors ==
    {"NoSeparator", "NoMethod", "NoPath", "NoVersion", "NoRequestLine",
     "InvalidQuery", "InvalidMethod", "InvalidHeader"}

\* error.rs: Error.  One record shape for every variant:
\*   Parse(e): info = e;  Stream(e): info = e;  Io(msg): info = msg;
\*   Handle(NotFound(method, path));  Handle(Panic(_, msg)): info = msg;  None.
Err(kind, info, method, path) ==
    [kind |-> kind, info |-> info, method |-> method, path |-> path]
ErrorNone == Err("None", "", "", <<>>)
ErrorParse(e) == Err("Parse", e, "", <<>>)
ErrorStream(e) == Err("Stream", e, "", <<>>)
ErrorIo(msg) == Err("Io", msg, "", <<>>)
NotFound(method, path) == Err("NotFound", "", method, path)
Panic(msg) == Err("Panic", msg, "", <<>>)

\* Request: the fields the connection handler and dispatch read
\* (connection is the value of the Connection header, "" when absent).
Request(method, path, connection) ==
    [method |-> method, path |-> path, connection |-> connection,
     path_params |-> <<>>]
NoRequest == Request("", <<>>, "")

\* Result<Request>
OkReq(r) == [ok |-> TRUE, req |-> r, err |-> ErrorNone]
ErrReq(e) == [ok |-> FALSE, req |-> NoRequest, err |-> e]

\* response.rs: Response::new and the builders
ResponseNew ==
    [status |-> 200, data |-> <<"OK">>, headers |-> <<>>, reason |-> <<>>,
     close |-> FALSE]
status(self, code) == [self EXCEPT !.status = code]
reason(self, r) == [self EXCEPT !.reason = <<r>>]
text(self, t) == [self EXCEPT !.data = t]
bytes(self, b) == [self EXCEPT !.data = b]
\* header replacing an entry of the same name instead of pushing
header_replacing(self, key, value) ==
    [self EXCEPT !.headers =
        IF \E k \in 1..Len(self.headers) : self.headers[k][1] = key
        THEN [k \in 1..Len(self.headers) |->
                 IF self.headers[k][1] = key THEN <<key, value>> ELSE self.headers[k]]
        ELSE Append(self.headers, <<key, value>>)]
header(self, key, value) ==
    [self EXCEPT !.headers = Append(self.headers, <<key, value>>)]
headers(self, hs) == [self EXCEPT !.headers = self.headers \o hs]
close(self) == [self EXCEPT !.close = TRUE]
content(self, ctype) ==
    [self EXCEPT !.headers = Append(self.headers, <<"Content-Type", ctype>>)]

\* Header::new
Header(name, value) == <<name, value>>

\* res.data.len().to_string(): the decimal length of the body, kept as the
\* text "len" of the body's pieces
len_to_string(data) == "len " \o ToString(data)

\* the response as it goes on the socket: the status, the response's own
\* headers, then a copy of each default header, then Content-Length, and
\* the body
Wire(r, defaults) ==
    [status |-> r.status,
     headers |-> (r.headers \o defaults)
                    \o <<Header("Content-Length", len_to_string(r.data))>>,
     data |-> r.data]
NoWire == [status |-> 0, headers |-> <<>>, data |-> <<>>]

\* lib.rs, Response::new
LibResponse(st, data, hs) == [status |-> st, data |-> data, headers |-> hs]
\* the value of lib_res before a connection was handled
LibNoResponse == LibResponse(0, "", <<>>)

\* a builder call, and none
Op(name, arg) == [name |-> name, arg |-> arg]
NoOp == Op("new", <<>>)

\* Result<Response>
OkRes(r) == [ok |-> TRUE, resp |-> r, err |-> ErrorNone]
ErrRes(e) == [ok |-> FALSE, resp |-> ResponseNew, err |-> e]


\* Option<Request>
Some(r) == [some |-> TRUE, req |-> r]
None == [some |-> FALSE, req |-> NoRequest]
\* Result::ok
ok(result) == IF result.ok THEN Some(result.req) ELSE None

\* ------------------------------------------------------------------ paths

\* A route pattern is the sequence of its parts; a request path the
\* sequence of its segments ("/greet/John" is <<"greet", "John">>, and
\* "/greet/" ends with the empty segment).
Normal(s) == [t |-> "Normal", v |-> s]
Param(s) == [t |-> "Param", v |-> s]
AnyPart == [t |-> "Any", v |-> ""]

\* one part of a pattern against one segment of a path
PartMatches(part, seg) ==
    CASE part.t = "Normal" -> part.v = seg
      [] part.t = "Param" -> seg # ""
      [] OTHER -> TRUE

\* the (name, value) pairs bound by the Param parts among the first n parts
RECURSIVE ParamsUpTo(_, _, _)
ParamsUpTo(pattern, path, n) ==
    IF n = 0 THEN <<>>
    ELSE IF pattern[n].t = "Param"
         THEN Append(ParamsUpTo(pattern, path, n - 1), <<pattern[n].v, path[n]>>)
         ELSE ParamsUpTo(pattern, path, n - 1)

\* Path::match_path: Option<Vec<(String, String)>>, as [some, params].
\* A trailing Any part matches every remaining suffix; without it the
\* segment counts must be equal.
match_path(pattern, path) ==
    LET wild == Len(pattern) > 0 /\ pattern[Len(pattern)].t = "Any"
        fixed == IF wild THEN Len(pattern) - 1 ELSE Len(pattern)
        fits == /\ IF wild THEN Len(path) >= fixed ELSE Len(path) = fixed
                /\ \A k \in 1..fixed : PartMatches(pattern[k], path[k])
    IN  IF fits THEN [some |-> TRUE, params |-> ParamsUpTo(pattern, path, fixed)]
        ELSE [some |-> FALSE, params |-> <<>>]

\* Request::path_param: Option<String>, as the set of the values found first
path_param(r, name) ==
    LET hits == {k \in 1..Len(r.path_params) : r.path_params[k][1] = name}
    IN  IF hits = {} THEN [some |-> FALSE, v |-> ""]
        ELSE [some |-> TRUE,
              v |-> r.path_params[CHOOSE k \in hits : \A j \in hits : k <= j][2]]

\* Request::keep_alive: keep-alive unless "Connection: close" is present
keep_alive_of(r) == r.connection # "close"

\* ------------------------------------------------------------------ inputs

GreetName == <<Normal("greet"), Param("name")>>
GreetJohn == <<Normal("greet"), Normal("John")>>
Nose == <<Normal("nose")>>

\* Route: method, path pattern, handler (RouteType and the closure's name)
Route(method, path, kind, handler) ==
    [method |-> method, path |-> path, kind |-> kind, handler |-> handler]

\* the registrations the model draws from; "greet" is the handler of
\* examples/basic/data.rs, "user" any other handler
RouteMenu ==
    {Route(GET, GreetName, "Stateless", "greet"),
     Route(ANY, GreetJohn, "Stateless", "user"),
     Route(POST, GreetName, "Stateless", "user"),
     Route(GET, Nose, "Stateless", "user"),
     Route(POST, GreetJohn, "Statefull", "user")}

\* Server::new: the default header; Server::default_header: those the
\* model adds
ServerHeader == Header("Server", "afire/VERSION")
HeaderMenu == {Header("Content-Type", "text/html"), Header("X-Frame-Options", "deny")}

\* the server with a RateLimiter: its worker threads (start_threaded's
\* threads argument), thread 0 being the thread that calls start; the
\* client addresses; RateLimiter::limit and RateLimiter::timeout
NumWorkers == 2
Workers == 1..NumWorkers
Threads == 0..NumWorkers
NoThread == 0 - 1
Clients == {"a", "b"}
ReqLimit == 2
ReqTimeout == 2

\* the paths the peers request
ReqPaths == {<<"greet", "John">>, <<"greet">>, <<"greet", "">>}
Requests ==
    {Request(m, p, c) : m \in Methods, p \in ReqPaths, c \in {"", "close"}}

\* the request a pre hook may put in place of the one it was given
ReplaceRequests == {Request(GET, <<"nose">>, "")}

\* Request::from_socket: a request, a parse error, a stream error when the
\* peer has closed or truncated the stream, an I/O error
StreamEnd == ErrReq(ErrorStream("UnexpectedEof"))
IoFailure == ErrReq(ErrorIo("connection reset"))
from_socket ==
    {OkReq(r) : r \in Requests} \cup {ErrReq(ErrorParse(e)) : e \in ParseErrors}
        \cup {StreamEnd, IoFailure}

\* the response a middleware hook builds
MwResponse(phase, i, cl) ==
    LET r == text(ResponseNew, <<phase, ToString(i)>>)
    IN  IF cl THEN close(r) ELSE r


\* ------------------------------------------------------------------ state

VARIABLES
    routes,         \* Server.routes, in registration order
    middleware,     \* Server.middleware, in attachment order (their ids)
    error_handler,  \* Server.error_handler: "default" or "custom"
    default_headers,\* Server.default_headers, in the order they were added
    state,          \* Server.state: "None" or "Some"
    pc,             \* where the serving thread is
    socket,         \* the accepted stream: "none", "open", "shutdown"
    served,         \* whether a loop iteration was completed on the open connection
    parsed,         \* what Request::from_socket returned in this iteration
    req,            \* get_response: req
    res,            \* get_response: res
    keep_alive,     \* handle: keep_alive
    idx,            \* the position of the running middleware loop
    ret,            \* what get_response returned: (Option<Request>, Response)
    closeFlag,      \* handle: close
    log,            \* the calls and writes of this iteration, in order
    endPanicked,    \* whether an end hook of this iteration has panicked
    wire,           \* the response of this iteration as it was put on the socket
    built,          \* a Response under construction by the builder calls
    prior,          \* that Response before the last builder call
    op,             \* the last builder call: its name and argument
    mode,           \* how a server with a RateLimiter was started: "new", "start", "start_threaded"
    queue,          \* the connections handed to the pool and not yet taken, by client address
    tpc,            \* where each thread is (thread 0 is the one that called start)
    tip,            \* the client address of the connection each thread handles
    verdict,        \* what the limiter's pre hook decided for each thread's request
    ttime,          \* check_reset: time, per thread
    tcount,         \* add_request: count, per thread
    requests,       \* RateLimiter.requests: the counter of each client address
    last_reset,     \* RateLimiter.last_reset
    lock,           \* the thread holding the write lock of requests, or NoThread
    now,            \* the system clock, in seconds
    reqs,           \* the requests read so far on all connections
    handled,        \* per client, the requests answered since the table was last cleared
    passes,         \* per client, the requests that passed the pre hook since then
    added,          \* per client, the add_request calls completed since then
    tx,             \* the Sender that sse returned: "none", "held", "dropped"
    rx,             \* the events in the channel, oldest first
    worker,         \* the "SSE worker" thread: "none", "running", "done"
    sent,           \* what was written to the socket, in order
    werrors,        \* the write_all calls of the worker that returned an error
    events,         \* the events sent on the channel so far
    lib_pc,         \* lib.rs: where the server is: "setup" or "listen"
    lib_routes,     \* lib.rs: Server.routes, in registration order
    lib_stream,     \* lib.rs: the request line read from the stream, split at " "
    lib_res         \* lib.rs: the Response handle_connection returned

vars ==
    <<routes, middleware, error_handler, default_headers, state, pc, socket,
      served, parsed, req, res, keep_alive, idx, ret, closeFlag, log,
      endPanicked, wire, built, prior, op, mode, queue, tpc, tip, verdict,
      ttime, tcount, requests, last_reset, lock, now, reqs, handled, passes,
      added, tx, rx, worker, sent, werrors, events, lib_pc, lib_routes,
      lib_stream, lib_res>>

\* the variables of the server with a RateLimiter and of its threads
limiting ==
    <<mode, queue, tpc, tip, verdict, ttime, tcount, requests, last_reset,
      lock, now, reqs, handled, passes, added>>

\* the variables of a server-sent-events connection
streaming == <<tx, rx, worker, sent, werrors, events>>

\* the variables of the server of lib.rs
legacy == <<lib_pc, lib_routes, lib_stream, lib_res>>

\* the variables of the Response under construction
building == <<built, prior, op>>

config == <<routes, middleware, error_handler, default_headers, state>>

Event(ev, i, out) == [ev |-> ev, i |-> i, out |-> out]

NoRet == [req |-> None, res |-> ResponseNew]

\* the value of parsed and req while no request has been read
NotRead == ErrReq(ErrorNone)

\* ------------------------------------------------------------------ errors

\* Server::new: the default error_handler; Server::error_handler: a custom one
DefaultErrorHandler(msg) ==
    header(text(status(ResponseNew, 500), <<"Internal Server Error :/\nError: ", msg>>),
           "Content-Type", "text/plain")
CustomErrorHandler(msg) ==
    text(status(ResponseNew, 500), <<"Internal Server Error: ", msg>>)
ErrorHandler(h, msg) ==
    IF h = "default" THEN DefaultErrorHandler(msg) ELSE CustomErrorHandler(msg)

\* ParseErrorText with the NoVersion arm a copy of the NoPath arm
ParseErrorText_copied_arm(e) ==
    CASE e = "NoSeparator" -> "No separator"
      [] e = "NoMethod" -> "No method"
      [] e = "NoPath" -> "No path"
      [] e = "NoVersion" -> "No path"
      [] e = "NoRequestLine" -> "No request line"
      [] e = "InvalidQuery" -> "Invalid query"
      [] e = "InvalidHeader" -> "Invalid header"
      [] e = "InvalidMethod" -> "Invalid method"

\* the body of each ParseError's response
ParseErrorText(e) ==
    CASE e = "NoSeparator" -> "No separator"
      [] e = "NoMethod" -> "No method"
      [] e = "NoPath" -> "No path"
      [] e = "NoVersion" -> "No HTTP version"
      [] e = "NoRequestLine" -> "No request line"
      [] e = "InvalidQuery" -> "Invalid query"
      [] e = "InvalidHeader" -> "Invalid header"
      [] e = "InvalidMethod" -> "Invalid method"

\* a path as the text it is printed as: "/" before every segment
RECURSIVE PathText(_)
PathText(path) ==
    IF path = <<>> THEN <<>>
    ELSE <<"/", Head(path)>> \o PathText(Tail(path))

\* error_response with the NotFound arm printing the path before the method
error_response_path_first(err, h) ==
    CASE err.kind \in {"Stream", "Startup", "None"} ->
            [panics |-> TRUE, resp |-> ResponseNew]
      [] err.kind = "Parse" ->
            [panics |-> FALSE,
             resp |-> text(status(ResponseNew, 400), <<ParseErrorText(err.info)>>)]
      [] err.kind = "NotFound" ->
            [panics |-> FALSE,
             resp |-> content(text(status(ResponseNew, 404),
                                   <<"Cannot ">> \o PathText(err.path) \o <<" ", err.method>>),
                              "text/plain")]
      [] err.kind = "Panic" ->
            [panics |-> FALSE, resp |-> ErrorHandler(h, err.info)]
      [] err.kind = "Io" ->
            [panics |-> FALSE, resp |-> text(status(ResponseNew, 500), <<err.info>>)]

\* error_response built without the panic_handler feature: the Panic arm is
\* unreachable!() as well
error_response_without_panic_handler(err, h) ==
    CASE err.kind \in {"Stream", "Startup", "None", "Panic"} ->
            [panics |-> TRUE, resp |-> ResponseNew]
      [] err.kind = "Parse" ->
            [panics |-> FALSE,
             resp |-> text(status(ResponseNew, 400), <<ParseErrorText(err.info)>>)]
      [] err.kind = "NotFound" ->
            [panics |-> FALSE,
             resp |-> content(text(status(ResponseNew, 404),
                                   <<"Cannot ", err.method, " ">> \o PathText(err.path)),
                              "text/plain")]
      [] err.kind = "Io" ->
            [panics |-> FALSE, resp |-> text(status(ResponseNew, 500), <<err.info>>)]

\* error_response: [panics, resp]; panics is the unreachable!() of the
\* Stream, Startup and None arms
error_response(err, h) ==
    CASE err.kind \in {"Stream", "Startup", "None"} ->
            [panics |-> TRUE, resp |-> ResponseNew]
      [] err.kind = "Parse" ->
            [panics |-> FALSE,
             resp |-> text(status(ResponseNew, 400), <<ParseErrorText(err.info)>>)]
      [] err.kind = "NotFound" ->
            [panics |-> FALSE,
             resp |-> content(text(status(ResponseNew, 404),
                                   <<"Cannot ", err.method, " ">> \o PathText(err.path)),
                              "text/plain")]
      [] err.kind = "Panic" ->
            [panics |-> FALSE, resp |-> ErrorHandler(h, err.info)]
      [] err.kind = "Io" ->
            [panics |-> FALSE, resp |-> text(status(ResponseNew, 500), <<err.info>>)]

\* handle_error losing the payload of the panic it was given
handle_error_dropping_payload(msg, r, h) ==
    [req |-> ok(r), res |-> error_response(Panic(""), h).resp]

\* get_response: the handle_error closure
handle_error(msg, r, h) ==
    [req |-> ok(r), res |-> error_response(Panic(msg), h).resp]


\* ------------------------------------------------------------------ setup

\* RateLimiter::new, limit and timeout, on a server not yet started: no
\* thread serves, the table is empty, last_reset is 0 and the clock is
\* past the first window
RateLimiterNew ==
    /\ mode = "new"
    /\ queue = <<>>
    /\ tpc = [t \in Threads |-> "idle"]
    /\ tip = [t \in Threads |-> "a"]
    /\ verdict = [t \in Threads |-> "passed"]
    /\ ttime = [t \in Threads |-> 0]
    /\ tcount = [t \in Threads |-> 0]
    /\ requests = [ip \in Clients |-> 0]
    /\ last_reset = 0
    /\ lock = NoThread
    /\ now = ReqTimeout
    /\ reqs = 0
    /\ handled = [ip \in Clients |-> 0]
    /\ passes = [ip \in Clients |-> 0]
    /\ added = [ip \in Clients |-> 0]

\* a request on which sse has not been called
NoStream ==
    /\ tx = "none"
    /\ rx = <<>>
    /\ worker = "none"
    /\ sent = <<>>
    /\ werrors = 0
    /\ events = 0

\* lib.rs, Server::new: no routes; nothing read or answered yet
LibServerNew ==
    /\ lib_pc = "setup"
    /\ lib_routes = <<>>
    /\ lib_stream = <<>>
    /\ lib_res = LibNoResponse

\* Server::new
Init ==
    /\ routes = <<>>
    /\ middleware = <<>>
    /\ error_handler = "default"
    /\ default_headers = <<ServerHeader>>
    /\ state = "None"
    /\ pc = "setup"
    /\ socket = "none"
    /\ served = FALSE
    /\ parsed = NotRead
    /\ req = NotRead
    /\ res = ErrRes(ErrorNone)
    /\ keep_alive = FALSE
    /\ idx = 0
    /\ ret = NoRet
    /\ closeFlag = FALSE
    /\ log = <<>>
    /\ endPanicked = FALSE
    /\ wire = NoWire
    /\ built = ResponseNew
    /\ prior = ResponseNew
    /\ op = NoOp
    /\ RateLimiterNew
    /\ NoStream
    /\ LibServerNew

conn ==
    <<socket, served, parsed, req, res, keep_alive, idx, ret, closeFlag, log,
      endPanicked, wire>>

\* the configuration calls made so far
SetupCalls ==
    Len(routes) + Len(middleware) + (IF error_handler = "custom" THEN 1 ELSE 0)
        + (Len(default_headers) - 1) + (IF state = "Some" THEN 1 ELSE 0)

\* Server::route
route ==
    /\ pc = "setup"
    /\ SetupCalls < MaxSetup
    /\ \E r \in RouteMenu : routes' = Append(routes, r)
    /\ UNCHANGED <<middleware, error_handler, default_headers, state, pc, conn>>
    /\ UNCHANGED <<building, limiting, streaming, legacy>>

\* attach inserting at the front of server.middleware instead of pushing
attach_at_front ==
    /\ pc = "setup"
    /\ SetupCalls < MaxSetup
    /\ middleware' = <<Len(middleware) + 1>> \o middleware
    /\ UNCHANGED <<routes, error_handler, default_headers, state, pc, conn>>
    /\ UNCHANGED <<building, limiting, streaming, legacy>>

\* Middleware::attach
attach ==
    /\ pc = "setup"
    /\ SetupCalls < MaxSetup
    /\ middleware' = Append(middleware, Len(middleware) + 1)
    /\ UNCHANGED <<routes, error_handler, default_headers, state, pc, conn>>
    /\ UNCHANGED <<building, limiting, streaming, legacy>>

\* Server::error_handler
set_error_handler ==
    /\ pc = "setup"
    /\ SetupCalls < MaxSetup
    /\ error_handler = "default"
    /\ error_handler' = "custom"
    /\ UNCHANGED <<routes, middleware, default_headers, state, pc, conn>>
    /\ UNCHANGED <<building, limiting, streaming, legacy>>

\* Server::default_header
default_header ==
    /\ pc = "setup"
    /\ SetupCalls < MaxSetup
    /\ \E h \in HeaderMenu : default_headers' = Append(default_headers, h)
    /\ UNCHANGED <<routes, middleware, error_handler, state, pc, conn>>
    /\ UNCHANGED <<building, limiting, streaming, legacy>>

\* Server::state
set_state ==
    /\ pc = "setup"
    /\ SetupCalls < MaxSetup
    /\ state = "None"
    /\ state' = "Some"
    /\ UNCHANGED <<routes, middleware, error_handler, default_headers, pc, conn>>
    /\ UNCHANGED <<building, limiting, streaming, legacy>>

\* Server::start, up to the listener's loop
start ==
    /\ pc = "setup"
    /\ pc' = "listen"
    /\ UNCHANGED <<config, conn>>
    /\ UNCHANGED <<building, limiting, streaming, legacy>>

\* Server::start: the next incoming connection is handed to handle
accept ==
    /\ pc = "listen"
    /\ socket' = "open"
    /\ served' = FALSE
    /\ pc' = "read"
    /\ UNCHANGED <<config, parsed, req, res, keep_alive, idx, ret, closeFlag, log,
                   endPanicked, wire>>
    /\ UNCHANGED <<building, limiting, streaming, legacy>>


\* ------------------------------------------------------------------ handle

\* read with the pre loop iterating server.middleware from its first element
read_starting_at_first ==
    /\ pc = "read"
    /\ \E r \in from_socket :
          /\ parsed' = r
          /\ req' = r
          /\ keep_alive' = (r.ok /\ keep_alive_of(r.req))
    /\ res' = ErrRes(ErrorNone)
    /\ ret' = NoRet
    /\ closeFlag' = FALSE
    /\ log' = <<>>
    /\ endPanicked' = FALSE
    /\ idx' = IF Len(middleware) > 0 THEN 1 ELSE 0
    /\ pc' = IF Len(middleware) > 0 THEN "pre" ELSE "route"
    /\ UNCHANGED <<config, socket, served, wire>>
    /\ UNCHANGED <<building, limiting, streaming, legacy>>

\* read with keep_alive left true when the request is an error
read_keeping_alive ==
    /\ pc = "read"
    /\ \E r \in from_socket :
          /\ parsed' = r
          /\ req' = r
          /\ keep_alive' = (r.ok => keep_alive_of(r.req))
    /\ res' = ErrRes(ErrorNone)
    /\ ret' = NoRet
    /\ closeFlag' = FALSE
    /\ log' = <<>>
    /\ endPanicked' = FALSE
    /\ idx' = Len(middleware)
    /\ pc' = IF Len(middleware) > 0 THEN "pre" ELSE "route"
    /\ UNCHANGED <<config, socket, served, wire>>
    /\ UNCHANGED <<building, limiting, streaming, legacy>>

\* handle: one loop iteration begins: the parser's result and keep_alive
read ==
    /\ pc = "read"
    /\ \E r \in from_socket :
          /\ parsed' = r
          /\ req' = r
          /\ keep_alive' = (r.ok /\ keep_alive_of(r.req))
    /\ res' = ErrRes(ErrorNone)
    /\ ret' = NoRet
    /\ closeFlag' = FALSE
    /\ log' = <<>>
    /\ endPanicked' = FALSE
    /\ idx' = Len(middleware)
    /\ pc' = IF Len(middleware) > 0 THEN "pre" ELSE "route"
    /\ UNCHANGED <<config, socket, served, wire>>
    /\ UNCHANGED <<building, limiting, streaming, legacy>>

\* pre without the break of line 82: the loop goes on after an Abort
pre_without_break ==
    /\ pc = "pre"
    /\ \/ /\ \E r \in {req} \cup {OkReq(q) : q \in ReplaceRequests} :
                /\ req' = r
                /\ log' = Append(log, Event("pre", middleware[idx],
                                            IF r = req THEN "continue" ELSE "replace"))
          /\ idx' = idx - 1
          /\ pc' = IF idx > 1 THEN "pre" ELSE "route"
          /\ UNCHANGED <<res, ret>>
       \/ /\ \E cl \in BOOLEAN : res' = OkRes(MwResponse("pre", middleware[idx], cl))
          /\ log' = Append(log, Event("pre", middleware[idx], "abort"))
          /\ idx' = idx - 1
          /\ pc' = IF idx > 1 THEN "pre" ELSE "route"
          /\ UNCHANGED <<req, ret>>
       \/ /\ ret' = handle_error("pre panic", req, error_handler)
          /\ log' = Append(log, Event("pre", middleware[idx], "panic"))
          /\ idx' = 0
          /\ pc' = "write"
          /\ UNCHANGED <<req, res>>
    /\ UNCHANGED <<config, socket, served, wire, parsed, keep_alive, closeFlag,
                   endPanicked>>
    /\ UNCHANGED <<building, limiting, streaming, legacy>>

\* get_response: the pre loop calls pre_raw of middleware[idx], the most
\* recently attached first.  The hook continues, replaces the request it
\* was lent, aborts with a response, or panics.
pre ==
    /\ pc = "pre"
    /\ \/ /\ \E r \in {req} \cup {OkReq(q) : q \in ReplaceRequests} :
                /\ req' = r
                /\ log' = Append(log, Event("pre", middleware[idx],
                                            IF r = req THEN "continue" ELSE "replace"))
          /\ idx' = idx - 1
          /\ pc' = IF idx > 1 THEN "pre" ELSE "route"
          /\ UNCHANGED <<res, ret>>
       \/ /\ \E cl \in BOOLEAN : res' = OkRes(MwResponse("pre", middleware[idx], cl))
          /\ log' = Append(log, Event("pre", middleware[idx], "abort"))
          /\ idx' = 0
          /\ pc' = "route"
          /\ UNCHANGED <<req, ret>>
       \/ /\ ret' = handle_error("pre panic", req, error_handler)
          /\ log' = Append(log, Event("pre", middleware[idx], "panic"))
          /\ idx' = 0
          /\ pc' = "write"
          /\ UNCHANGED <<req, res>>
    /\ UNCHANGED <<config, socket, served, wire, parsed, keep_alive, closeFlag,
                   endPanicked>>
    /\ UNCHANGED <<building, limiting, streaming, legacy>>

\* handle_route: the scan of routes.iter().rev(): the index of the first
\* route, from the last registered on, whose method and pattern match; 0 if none
Matches(rt, r) ==
    /\ r.method = rt.method \/ rt.method = ANY
    /\ match_path(rt.path, r.path).some
\* resolve_route scanning routes.iter() without rev()
resolve_route_first_registered(rs, r) ==
    LET hits == {k \in 1..Len(rs) : Matches(rs[k], r)}
    IN  IF hits = {} THEN 0 ELSE CHOOSE k \in hits : \A j \in hits : k <= j
resolve_route(rs, r) ==
    LET hits == {k \in 1..Len(rs) : Matches(rs[k], r)}
    IN  IF hits = {} THEN 0 ELSE CHOOSE k \in hits : \A j \in hits : j <= k

\* what the handler of route k does when called with request r:
\* [panics, msg, resp].  "greet" is examples/basic/data.rs; any other
\* handler returns a response, with or without close(), or panics.
Returned(r) == [panics |-> FALSE, msg |-> "", resp |-> r]
Panicked(msg) == [panics |-> TRUE, msg |-> msg, resp |-> ResponseNew]
Greet(r) ==
    LET name == path_param(r, "name")
    IN  IF name.some
        THEN Returned(header(text(ResponseNew, <<"<h1>Hello, ", name.v, "</h1>">>),
                             "Content-Type", "text/html"))
        ELSE Panicked("called Option::unwrap() on a None value")
Handler(rt, k, r) ==
    IF rt.kind = "Statefull" /\ state = "None" THEN {Panicked("State not initialized")}
    ELSE IF rt.handler = "greet" THEN {Greet(r)}
    ELSE {Returned(text(ResponseNew, <<"route ", ToString(k)>>)),
          Returned(close(text(ResponseNew, <<"route ", ToString(k)>>))),
          Panicked("route panic")}

\* handle_route without the assignment to req.path_params
handle_route_without_params(rs, r) ==
    LET k == resolve_route(rs, r)
    IN  IF k = 0
        THEN {[k |-> 0, req |-> r, res |-> ErrRes(NotFound(r.method, r.path)),
               out |-> "none"]}
        ELSE {[k |-> k, req |-> r,
               res |-> IF o.panics THEN ErrRes(Panic(o.msg)) ELSE OkRes(o.resp),
               out |-> IF o.panics THEN "panic" ELSE "return"] : o \in Handler(rs[k], k, r)}

\* handle_route: Result<Response> and the request with its path_params, for
\* each thing the matched handler may do
handle_route(rs, r) ==
    LET k == resolve_route(rs, r)
        rq == [r EXCEPT !.path_params = match_path(rs[k].path, r.path).params]
    IN  IF k = 0
        THEN {[k |-> 0, req |-> r, res |-> ErrRes(NotFound(r.method, r.path)),
               out |-> "none"]}
        ELSE {[k |-> k, req |-> rq,
               res |-> IF o.panics THEN ErrRes(Panic(o.msg)) ELSE OkRes(o.resp),
               out |-> IF o.panics THEN "panic" ELSE "return"] : o \in Handler(rs[k], k, rq)}

\* dispatch going back to the pre loop after its first run
dispatch_rerunning_pre ==
    /\ pc = "route"
    /\ IF ~res.ok /\ req.ok
       THEN \E h \in handle_route(routes, req.req) :
               /\ req' = OkReq(h.req)
               /\ res' = h.res
               /\ log' = Append(log, Event("route", h.k, h.out))
       ELSE UNCHANGED <<req, res, log>>
    /\ idx' = Len(middleware)
    /\ pc' = IF Len(middleware) > 0 /\ (\A k \in 1..Len(log) : log[k].ev # "route") THEN "pre"
             ELSE IF Len(middleware) > 0 THEN "post" ELSE "resolve"
    /\ UNCHANGED <<config, socket, served, wire, parsed, keep_alive, ret, closeFlag,
                   endPanicked>>
    /\ UNCHANGED <<building, limiting, streaming, legacy>>

\* dispatch without the res.is_err() test of line 90
dispatch_ignoring_abort ==
    /\ pc = "route"
    /\ IF req.ok
       THEN \E h \in handle_route(routes, req.req) :
               /\ req' = OkReq(h.req)
               /\ res' = h.res
               /\ log' = Append(log, Event("route", h.k, h.out))
       ELSE UNCHANGED <<req, res, log>>
    /\ idx' = Len(middleware)
    /\ pc' = IF Len(middleware) > 0 THEN "post" ELSE "resolve"
    /\ UNCHANGED <<config, socket, served, wire, parsed, keep_alive, ret, closeFlag,
                   endPanicked>>
    /\ UNCHANGED <<building, limiting, streaming, legacy>>

\* dispatch going past the post loop when a pre hook has aborted
dispatch_skipping_post ==
    /\ pc = "route"
    /\ IF ~res.ok /\ req.ok
       THEN \E h \in handle_route(routes, req.req) :
               /\ req' = OkReq(h.req)
               /\ res' = h.res
               /\ log' = Append(log, Event("route", h.k, h.out))
       ELSE UNCHANGED <<req, res, log>>
    /\ idx' = Len(middleware)
    /\ pc' = IF Len(middleware) > 0 /\ ~res.ok THEN "post" ELSE "resolve"
    /\ UNCHANGED <<config, socket, served, wire, parsed, keep_alive, ret, closeFlag,
                   endPanicked>>
    /\ UNCHANGED <<building, limiting, streaming, legacy>>

\* dispatch without the call of handle_route
dispatch_without_route ==
    /\ pc = "route"
    /\ UNCHANGED <<req, res, log>>
    /\ idx' = Len(middleware)
    /\ pc' = IF Len(middleware) > 0 THEN "post" ELSE "resolve"
    /\ UNCHANGED <<config, socket, served, wire, parsed, keep_alive, ret, closeFlag,
                   endPanicked>>
    /\ UNCHANGED <<building, limiting, streaming, legacy>>

\* get_response: the route is run unless a pre hook aborted or the request is an error
dispatch ==
    /\ pc = "route"
    /\ IF ~res.ok /\ req.ok
       THEN \E h \in handle_route(routes, req.req) :
               /\ req' = OkReq(h.req)
               /\ res' = h.res
               /\ log' = Append(log, Event("route", h.k, h.out))
       ELSE UNCHANGED <<req, res, log>>
    /\ idx' = Len(middleware)
    /\ pc' = IF Len(middleware) > 0 THEN "post" ELSE "resolve"
    /\ UNCHANGED <<config, socket, served, wire, parsed, keep_alive, ret, closeFlag,
                   endPanicked>>
    /\ UNCHANGED <<building, limiting, streaming, legacy>>

\* post with Abort storing the response and going on instead of returning
post_without_return ==
    /\ pc = "post"
    /\ \/ /\ \E r \in {res, OkRes(MwResponse("post add", middleware[idx], FALSE))} :
                /\ res' = r
                /\ log' = Append(log, Event("post", middleware[idx],
                                            IF r = res THEN "continue" ELSE "add"))
          /\ idx' = idx - 1
          /\ pc' = IF idx > 1 THEN "post" ELSE "resolve"
          /\ UNCHANGED ret
       \/ /\ \E cl \in BOOLEAN : res' = OkRes(MwResponse("post", middleware[idx], cl))
          /\ log' = Append(log, Event("post", middleware[idx], "abort"))
          /\ idx' = idx - 1
          /\ pc' = IF idx > 1 THEN "post" ELSE "resolve"
          /\ UNCHANGED ret
       \/ /\ ret' = handle_error("post panic", req, error_handler)
          /\ log' = Append(log, Event("post", middleware[idx], "panic"))
          /\ idx' = 0
          /\ pc' = "write"
          /\ UNCHANGED res
    /\ UNCHANGED <<config, socket, served, wire, parsed, req, keep_alive, closeFlag,
                   endPanicked>>
    /\ UNCHANGED <<building, limiting, streaming, legacy>>

\* get_response: the post loop calls post_raw of middleware[idx].  The hook
\* continues, puts a response in place of the result it was lent, aborts
\* with a response, or panics.
post ==
    /\ pc = "post"
    /\ \/ /\ \E r \in {res, OkRes(MwResponse("post add", middleware[idx], FALSE))} :
                /\ res' = r
                /\ log' = Append(log, Event("post", middleware[idx],
                                            IF r = res THEN "continue" ELSE "add"))
          /\ idx' = idx - 1
          /\ pc' = IF idx > 1 THEN "post" ELSE "resolve"
          /\ UNCHANGED ret
       \/ /\ \E cl \in BOOLEAN :
                ret' = [req |-> ok(req), res |-> MwResponse("post", middleware[idx], cl)]
          /\ log' = Append(log, Event("post", middleware[idx], "abort"))
          /\ idx' = 0
          /\ pc' = "write"
          /\ UNCHANGED res
       \/ /\ ret' = handle_error("post panic", req, error_handler)
          /\ log' = Append(log, Event("post", middleware[idx], "panic"))
          /\ idx' = 0
          /\ pc' = "write"
          /\ UNCHANGED res
    /\ UNCHANGED <<config, socket, served, wire, parsed, req, keep_alive, closeFlag,
                   endPanicked>>
    /\ UNCHANGED <<building, limiting, streaming, legacy>>

\* get_response: an Ok result is returned with the request; an error is the
\* request's own if there is none, else the result's, and goes through
\* error_response, whose unreachable!() unwinds out of handle
resolve ==
    /\ pc = "resolve"
    /\ IF res.ok
       THEN /\ ret' = [req |-> ok(req), res |-> res.resp]
            /\ pc' = "write"
       ELSE LET error == IF ~req.ok THEN req.err ELSE res.err
                e == error_response(error, error_handler)
            IN  IF e.panics
                THEN /\ pc' = "panicked"
                     /\ UNCHANGED ret
                ELSE /\ ret' = [req |-> None, res |-> e.resp]
                     /\ pc' = "write"
    /\ UNCHANGED <<config, socket, served, wire, parsed, req, res, keep_alive, idx, closeFlag, log,
                   endPanicked>>
    /\ UNCHANGED <<building, limiting, streaming, legacy>>

\* write trying res.write a second time after an error
write_retrying_on_failure ==
    /\ pc = "write"
    /\ closeFlag' = ret.res.close
    /\ wire' = Wire(ret.res, default_headers)
    /\ \/ log' = Append(log, Event("write", 0, "ok"))
       \/ \E w \in {"ok", "failed"} :
             log' = log \o <<Event("write", 0, "failed"), Event("write", 0, w)>>
    /\ idx' = IF ret.req.some THEN Len(middleware) ELSE 0
    /\ pc' = IF ret.req.some /\ Len(middleware) > 0 THEN "end" ELSE "decide"
    /\ UNCHANGED <<config, socket, served, parsed, req, res, keep_alive, ret,
                   endPanicked>>
    /\ UNCHANGED <<building, limiting, streaming, legacy>>

\* write going round for the next request of a kept-alive connection itself
write_then_read ==
    /\ pc = "write"
    /\ closeFlag' = ret.res.close
    /\ wire' = Wire(ret.res, default_headers)
    /\ \E w \in {"ok", "failed"} : log' = Append(log, Event("write", 0, w))
    /\ idx' = IF ret.req.some THEN Len(middleware) ELSE 0
    /\ pc' = IF keep_alive /\ ~ret.res.close THEN "read"
             ELSE IF ret.req.some /\ Len(middleware) > 0 THEN "end" ELSE "decide"
    /\ UNCHANGED <<config, socket, served, parsed, req, res, keep_alive, ret,
                   endPanicked>>
    /\ UNCHANGED <<building, limiting, streaming, legacy>>

\* write sending nothing for a response whose close flag is set
write_skipping_closed ==
    /\ pc = "write"
    /\ closeFlag' = ret.res.close
    /\ wire' = IF ret.res.close THEN NoWire ELSE Wire(ret.res, default_headers)
    /\ IF ret.res.close
       THEN UNCHANGED log
       ELSE \E w \in {"ok", "failed"} : log' = Append(log, Event("write", 0, w))
    /\ idx' = IF ret.req.some THEN Len(middleware) ELSE 0
    /\ pc' = IF ret.req.some /\ Len(middleware) > 0 THEN "end" ELSE "decide"
    /\ UNCHANGED <<config, socket, served, parsed, req, res, keep_alive, ret,
                   endPanicked>>
    /\ UNCHANGED <<building, limiting, streaming, legacy>>

\* write putting the default headers in front of the response's own
write_defaults_first ==
    /\ pc = "write"
    /\ closeFlag' = ret.res.close
    /\ wire' = [Wire(ret.res, default_headers) EXCEPT
                   !.headers = (default_headers \o ret.res.headers)
                                  \o <<Header("Content-Length", len_to_string(ret.res.data))>>]
    /\ \E w \in {"ok", "failed"} : log' = Append(log, Event("write", 0, w))
    /\ idx' = IF ret.req.some THEN Len(middleware) ELSE 0
    /\ pc' = IF ret.req.some /\ Len(middleware) > 0 THEN "end" ELSE "decide"
    /\ UNCHANGED <<config, socket, served, parsed, req, res, keep_alive, ret,
                   endPanicked>>
    /\ UNCHANGED <<building, limiting, streaming, legacy>>

\* handle: close is read, the response is written; a failed write is only logged
write ==
    /\ pc = "write"
    /\ closeFlag' = ret.res.close
    /\ wire' = Wire(ret.res, default_headers)
    /\ \E w \in {"ok", "failed"} : log' = Append(log, Event("write", 0, w))
    /\ idx' = IF ret.req.some THEN Len(middleware) ELSE 0
    /\ pc' = IF ret.req.some /\ Len(middleware) > 0 THEN "end" ELSE "decide"
    /\ UNCHANGED <<config, socket, served, parsed, req, res, keep_alive, ret,
                   endPanicked>>
    /\ UNCHANGED <<building, limiting, streaming, legacy>>

\* end without catch_unwind around the hook: a panic leaves the end loop
end_stopping_at_panic ==
    /\ pc = "end"
    /\ log' = Append(log, Event("end", middleware[idx], "called"))
    /\ \E panics \in BOOLEAN :
          /\ endPanicked' = (endPanicked \/ panics)
          /\ idx' = IF panics THEN 0 ELSE idx - 1
          /\ pc' = IF idx > 1 /\ ~panics THEN "end" ELSE "decide"
    /\ UNCHANGED <<config, socket, served, wire, parsed, req, res, keep_alive, ret, closeFlag>>
    /\ UNCHANGED <<building, limiting, streaming, legacy>>

\* handle: the end loop calls end of middleware[idx]; a panic is caught and logged
end ==
    /\ pc = "end"
    /\ log' = Append(log, Event("end", middleware[idx], "called"))
    /\ \E panics \in BOOLEAN : endPanicked' = (endPanicked \/ panics)
    /\ idx' = idx - 1
    /\ pc' = IF idx > 1 THEN "end" ELSE "decide"
    /\ UNCHANGED <<config, socket, served, wire, parsed, req, res, keep_alive, ret, closeFlag>>
    /\ UNCHANGED <<building, limiting, streaming, legacy>>

\* the loop body's locals before they are assigned and after they are dropped
Dropped ==
    /\ parsed' = NotRead
    /\ req' = NotRead
    /\ res' = ErrRes(ErrorNone)
    /\ keep_alive' = FALSE
    /\ idx' = 0
    /\ ret' = NoRet
    /\ closeFlag' = FALSE
    /\ log' = <<>>
    /\ endPanicked' = FALSE
    /\ wire' = NoWire

\* decide with the test of line 54 reading "!keep_alive" only
decide_ignoring_close ==
    /\ pc = "decide"
    /\ served' = TRUE
    /\ IF ~keep_alive
       THEN /\ socket' = "shutdown"
            /\ pc' = "listen"
       ELSE /\ pc' = "read"
            /\ UNCHANGED socket
    /\ Dropped
    /\ UNCHANGED config
    /\ UNCHANGED <<building, limiting, streaming, legacy>>

\* decide with the test of line 54 reading "close" only
decide_ignoring_keep_alive ==
    /\ pc = "decide"
    /\ served' = TRUE
    /\ IF closeFlag
       THEN /\ socket' = "shutdown"
            /\ pc' = "listen"
       ELSE /\ pc' = "read"
            /\ UNCHANGED socket
    /\ Dropped
    /\ UNCHANGED config
    /\ UNCHANGED <<building, limiting, streaming, legacy>>

\* handle: the socket is shut down and the loop left, or the loop goes round;
\* either way the iteration's locals are dropped
decide ==
    /\ pc = "decide"
    /\ served' = TRUE
    /\ IF ~keep_alive \/ closeFlag
       THEN /\ socket' = "shutdown"
            /\ pc' = "listen"
       ELSE /\ pc' = "read"
            /\ UNCHANGED socket
    /\ Dropped
    /\ UNCHANGED config
    /\ UNCHANGED <<building, limiting, streaming, legacy>>

Next ==
    \/ route
    \/ attach
    \/ set_error_handler
    \/ default_header
    \/ set_state
    \/ start
    \/ accept
    \/ read
    \/ pre
    \/ dispatch
    \/ post
    \/ resolve
    \/ write
    \/ end
    \/ decide

Spec == Init /\ [][Next]_vars


\* ------------------------------------------------------------------ builders

\* the variables of the server and of the connection it serves
handling == <<config, pc, conn>>

\* the arguments the builder calls are given
StatusCodes == {100, 404}
Reasons == {"Good"}
Texts == {<<"Hello World">>, <<"N O S E">>}
ByteVecs == {<<"d">>}
BuildHeaders == {Header("Name", "Value"), Header("Hello", "World")}
HeaderVecs ==
    {<<>>} \cup {<<h>> : h \in BuildHeaders}
        \cup {<<h, g>> : h \in BuildHeaders, g \in BuildHeaders}
ContentTypes == {"text/html"}

\* a builder call on the Response under construction, giving the next one
Built(next, name, arg) ==
    /\ Len(next.headers) <= MaxHeaders
    /\ built' = next
    /\ prior' = built
    /\ op' = Op(name, arg)
    /\ UNCHANGED <<handling, limiting, streaming, legacy>>

call_status == \E code \in StatusCodes : Built(status(built, code), "status", code)
call_reason == \E r \in Reasons : Built(reason(built, r), "reason", r)
call_text == \E t \in Texts : Built(text(built, t), "text", t)
call_bytes == \E b \in ByteVecs : Built(bytes(built, b), "bytes", b)
call_header == \E h \in BuildHeaders : Built(header(built, h[1], h[2]), "header", h)
call_headers == \E hs \in HeaderVecs : Built(headers(built, hs), "headers", hs)
call_close == Built(close(built), "close", <<>>)
call_content == \E c \in ContentTypes : Built(content(built, c), "content", c)

NextResponse ==
    \/ call_status
    \/ call_reason
    \/ call_text
    \/ call_bytes
    \/ call_header
    \/ call_headers
    \/ call_close
    \/ call_content

SpecResponse == Init /\ [][NextResponse]_vars

\* ------------------------------------------------------------------ limiter

\* A server whose only middleware is a RateLimiter, started with start (the
\* calling thread serves each connection itself) or with start_threaded
\* (the calling thread hands each connection to the pool).  Each thread
\* runs handle on its connection: the request is read, the limiter's pre
\* hook runs, the response is produced and written, and the limiter's end
\* hook runs if get_response returned the request.

threads == <<tpc, tip, verdict, ttime, tcount>>
table == <<requests, last_reset, lock, added>>

\* Server::start
limiter_start ==
    /\ mode = "new"
    /\ mode' = "start"
    /\ UNCHANGED <<queue, threads, table, now, reqs, handled, passes>>
    /\ UNCHANGED <<handling, building, streaming, legacy>>

\* Server::start_threaded
limiter_start_threaded ==
    /\ mode = "new"
    /\ mode' = "start_threaded"
    /\ UNCHANGED <<queue, threads, table, now, reqs, handled, passes>>
    /\ UNCHANGED <<handling, building, streaming, legacy>>

\* the clock
tick ==
    /\ now < MaxTime
    /\ now' = now + 1
    /\ UNCHANGED <<mode, queue, threads, table, reqs, handled, passes>>
    /\ UNCHANGED <<handling, building, streaming, legacy>>

\* Server::start: listener.incoming() gives a connection and the calling
\* thread runs handle on it
incoming_start ==
    /\ mode = "start"
    /\ tpc[0] = "idle"
    /\ \E ip \in Clients : tip' = [tip EXCEPT ![0] = ip]
    /\ tpc' = [tpc EXCEPT ![0] = "read"]
    /\ UNCHANGED <<mode, queue, verdict, ttime, tcount, table, now, reqs, handled, passes>>
    /\ UNCHANGED <<handling, building, streaming, legacy>>

\* start_threaded with pool.execute running the closure on the calling thread
incoming_threaded_inline ==
    /\ mode = "start_threaded"
    /\ tpc[0] = "idle"
    /\ \E ip \in Clients : tip' = [tip EXCEPT ![0] = ip]
    /\ tpc' = [tpc EXCEPT ![0] = "read"]
    /\ UNCHANGED <<mode, queue, verdict, ttime, tcount, table, now, reqs, handled, passes>>
    /\ UNCHANGED <<handling, building, streaming, legacy>>

\* Server::start_threaded: listener.incoming() gives a connection and
\* pool.execute queues the closure that will run handle on it
incoming_threaded ==
    /\ mode = "start_threaded"
    /\ Len(queue) < MaxQueue
    /\ \E ip \in Clients : queue' = Append(queue, ip)
    /\ UNCHANGED <<mode, threads, table, now, reqs, handled, passes>>
    /\ UNCHANGED <<handling, building, streaming, legacy>>

\* ThreadPool: an idle worker takes the oldest queued closure
worker_take ==
    /\ queue # <<>>
    /\ \E t \in Workers :
          /\ tpc[t] = "idle"
          /\ tip' = [tip EXCEPT ![t] = Head(queue)]
          /\ tpc' = [tpc EXCEPT ![t] = "read"]
    /\ queue' = Tail(queue)
    /\ UNCHANGED <<mode, verdict, ttime, tcount, table, now, reqs, handled, passes>>
    /\ UNCHANGED <<handling, building, streaming, legacy>>

\* handle: Request::from_socket gives the next request of the connection,
\* or the connection is over and the thread is free again
limiter_read ==
    /\ \E t \in Threads :
          /\ tpc[t] = "read"
          /\ \/ /\ reqs < MaxRequests
                /\ reqs' = reqs + 1
                /\ tpc' = [tpc EXCEPT ![t] = "pre"]
             \/ /\ tpc' = [tpc EXCEPT ![t] = "idle"]
                /\ UNCHANGED reqs
    /\ UNCHANGED <<mode, queue, tip, verdict, ttime, tcount, table, now, handled, passes>>
    /\ UNCHANGED <<handling, building, streaming, legacy>>

\* RateLimiter::is_over_limit, under the read lock
is_over_limit(ip) == requests[ip] >= ReqLimit

\* RateLimiter::pre: Send(handler's response) when over the limit, else Continue
limiter_pre ==
    /\ lock = NoThread
    /\ \E t \in Threads :
          /\ tpc[t] = "pre"
          /\ verdict' = [verdict EXCEPT ![t] =
                            IF is_over_limit(tip[t]) THEN "limited" ELSE "passed"]
          /\ passes' = [passes EXCEPT ![tip[t]] =
                            IF is_over_limit(tip[t]) THEN @ ELSE @ + 1]
          /\ tpc' = [tpc EXCEPT ![t] = "respond"]
    /\ UNCHANGED <<mode, queue, tip, ttime, tcount, table, now, reqs, handled>>
    /\ UNCHANGED <<handling, building, streaming, legacy>>

\* handle: get_response and the write.  The over-limit response and a
\* route's response come back with the request, so the end hook runs; the
\* 404 and a route's panic come back with None, so it does not.
limiter_respond ==
    /\ \E t \in Threads :
          /\ tpc[t] = "respond"
          /\ \/ /\ tpc' = [tpc EXCEPT ![t] = "check"]
                /\ UNCHANGED handled
             \/ /\ verdict[t] = "passed"
                /\ tpc' = [tpc EXCEPT ![t] = "read"]
                /\ handled' = [handled EXCEPT ![tip[t]] = @ + 1]
    /\ UNCHANGED <<mode, queue, tip, verdict, ttime, tcount, table, now, reqs, passes>>
    /\ UNCHANGED <<handling, building, streaming, legacy>>

\* RateLimiter::end, check_reset: the clock is read and compared
check_reset_load ==
    /\ \E t \in Threads :
          /\ tpc[t] = "check"
          /\ ttime' = [ttime EXCEPT ![t] = now]
          /\ tpc' = [tpc EXCEPT ![t] =
                        IF last_reset + ReqTimeout <= now THEN "clear" ELSE "add"]
    /\ UNCHANGED <<mode, queue, tip, verdict, tcount, table, now, reqs, handled, passes>>
    /\ UNCHANGED <<handling, building, streaming, legacy>>

\* check_reset: requests.write().unwrap().clear()
check_reset_clear ==
    /\ lock = NoThread
    /\ \E t \in Threads :
          /\ tpc[t] = "clear"
          /\ tpc' = [tpc EXCEPT ![t] = "store"]
    /\ requests' = [ip \in Clients |-> 0]
    /\ added' = [ip \in Clients |-> 0]
    /\ handled' = [ip \in Clients |-> 0]
    /\ passes' = [ip \in Clients |-> 0]
    /\ UNCHANGED <<mode, queue, tip, verdict, ttime, tcount, last_reset, lock, now, reqs>>
    /\ UNCHANGED <<handling, building, streaming, legacy>>

\* check_reset: last_reset.store(time)
check_reset_store ==
    /\ \E t \in Threads :
          /\ tpc[t] = "store"
          /\ last_reset' = ttime[t]
          /\ tpc' = [tpc EXCEPT ![t] = "add"]
    /\ UNCHANGED <<mode, queue, tip, verdict, ttime, tcount, requests, lock, added,
                   now, reqs, handled, passes>>
    /\ UNCHANGED <<handling, building, streaming, legacy>>

\* add_request reading the table without taking the write lock
add_request_unlocked ==
    /\ \E t \in Threads :
          /\ tpc[t] = "add"
          /\ tpc' = [tpc EXCEPT ![t] = "count"]
    /\ UNCHANGED <<mode, queue, tip, verdict, ttime, tcount, table, now, reqs, handled, passes>>
    /\ UNCHANGED <<handling, building, streaming, legacy>>

\* add_request: requests.write() waits for the lock and takes it
add_request_lock ==
    /\ lock = NoThread
    /\ \E t \in Threads :
          /\ tpc[t] = "add"
          /\ lock' = t
          /\ tpc' = [tpc EXCEPT ![t] = "count"]
    /\ UNCHANGED <<mode, queue, tip, verdict, ttime, tcount, requests, last_reset,
                   added, now, reqs, handled, passes>>
    /\ UNCHANGED <<handling, building, streaming, legacy>>

\* add_request: count = the client's counter, or 0, plus 1
add_request_count ==
    /\ \E t \in Threads :
          /\ tpc[t] = "count"
          /\ tcount' = [tcount EXCEPT ![t] = requests[tip[t]] + 1]
          /\ tpc' = [tpc EXCEPT ![t] = "insert"]
    /\ UNCHANGED <<mode, queue, tip, verdict, ttime, table, now, reqs, handled, passes>>
    /\ UNCHANGED <<handling, building, streaming, legacy>>

\* add_request: req.insert(ip, count); the guard is dropped on return and
\* handle goes round for the connection's next request
add_request_insert ==
    /\ \E t \in Threads :
          /\ tpc[t] = "insert"
          /\ requests' = [requests EXCEPT ![tip[t]] = tcount[t]]
          /\ added' = [added EXCEPT ![tip[t]] = @ + 1]
          /\ handled' = [handled EXCEPT ![tip[t]] = @ + 1]
          /\ tpc' = [tpc EXCEPT ![t] = "read"]
    /\ lock' = NoThread
    /\ UNCHANGED <<mode, queue, tip, verdict, ttime, tcount, last_reset, now, reqs, passes>>
    /\ UNCHANGED <<handling, building, streaming, legacy>>

NextLimiter ==
    \/ limiter_start
    \/ limiter_start_threaded
    \/ tick
    \/ incoming_start
    \/ incoming_threaded
    \/ worker_take
    \/ limiter_read
    \/ limiter_pre
    \/ limiter_respond
    \/ check_reset_load
    \/ check_reset_clear
    \/ check_reset_store
    \/ add_request_lock
    \/ add_request_count
    \/ add_request_insert

SpecLimiter == Init /\ [][NextLimiter]_vars

\* ------------------------------------------------------------------ sse

\* server_sent_events.rs, Event: id is empty or holds one number, data is
\* the text as split('\n') cuts it
SseEvent(id, ev, data) == [id |-> id, event |-> ev, data |-> data]

\* the events of test_sse_event_format
EventMenu ==
    {SseEvent(<<>>, "event", <<"">>), SseEvent(<<1>>, "update", <<"Hello">>)}

\* Event::to_string, as the pieces it pushes onto out
to_string(e) ==
    (IF e.id # <<>> THEN <<"id: " \o ToString(e.id[1]) \o "\n">> ELSE <<>>)
        \o <<"event: " \o e.event \o "\n">>
        \o [i \in 1..Len(e.data) |-> "data: " \o e.data[i] \o "\n"]
        \o <<"\n">>

\* the response head that sse writes before it makes the channel
SseHead ==
    <<"HTTP/1.1 200 OK\r\nContent-Type: text/event-stream\r\nCache-Control: no-cache\r\n\r\n">>

\* Request::sse: the head is written, the channel made and the worker
\* spawned; or the write fails and sse returns the error
sse ==
    /\ tx = "none"
    /\ \/ /\ sent' = <<SseHead>>
          /\ tx' = "held"
          /\ worker' = "running"
       \/ /\ tx' = "failed"
          /\ UNCHANGED <<sent, worker>>
    /\ UNCHANGED <<rx, werrors, events>>
    /\ UNCHANGED <<handling, building, limiting, legacy>>

\* the handler sends an event on the Sender it holds
send ==
    /\ tx = "held"
    /\ events < MaxEvents
    /\ \E e \in EventMenu : rx' = Append(rx, e)
    /\ events' = events + 1
    /\ UNCHANGED <<tx, worker, sent, werrors>>
    /\ UNCHANGED <<handling, building, limiting, legacy>>

\* the Sender is dropped: the channel is closed
drop_sender ==
    /\ tx = "held"
    /\ tx' = "dropped"
    /\ UNCHANGED <<rx, worker, sent, werrors, events>>
    /\ UNCHANGED <<handling, building, limiting, legacy>>

\* the worker: `for event in rx` gives the next event and write_all is
\* called with its text; the Result of the write is dropped
worker_write ==
    /\ worker = "running"
    /\ rx # <<>>
    /\ rx' = Tail(rx)
    /\ \/ /\ sent' = Append(sent, to_string(Head(rx)))
          /\ UNCHANGED werrors
       \/ /\ werrors' = werrors + 1
          /\ UNCHANGED sent
    /\ UNCHANGED <<tx, worker, events>>
    /\ UNCHANGED <<handling, building, limiting, legacy>>

\* the worker: the channel is empty and closed, the for loop and the thread end
worker_exit ==
    /\ worker = "running"
    /\ rx = <<>>
    /\ tx = "dropped"
    /\ worker' = "done"
    /\ UNCHANGED <<tx, rx, sent, werrors, events>>
    /\ UNCHANGED <<handling, building, limiting, legacy>>

NextSse ==
    \/ sse
    \/ send
    \/ drop_sender
    \/ worker_write
    \/ worker_exit

SpecSse == Init /\ [][NextSse]_vars


\* ------------------------------------------------------------------ lib.rs

\* Method of lib.rs; CUSTOM carries the verb it was made from
LibMethod(tag, name) == [tag |-> tag, name |-> name]
LibGET == LibMethod("GET", "")
LibANY == LibMethod("ANY", "")

\* impl PartialEq for Method: the discriminants are compared
MethodEq(a, b) == a.tag = b.tag

\* get_request_method: the first piece of the request line
KnownMethods ==
    {"GET", "POST", "PUT", "DELETE", "OPTIONS", "HEAD", "PATCH", "TRACE"}
get_request_method(raw_data) ==
    LET method_str == raw_data[1]
    IN  IF method_str \in KnownMethods THEN LibMethod(method_str, "")
        ELSE LibMethod("CUSTOM", method_str)

\* get_request_path: the second piece of the request line
get_request_path(raw_data) == raw_data[2]

\* the paths of the routes and of the requests, and the request lines read
LibPaths == {"/", "/b"}
LibStreams == {<<m, p, "HTTP/1.1">> : m \in {"GET", "POST", "BREW"}, p \in LibPaths}

\* what the handler of the k-th registered route returns
LibHandler(k) == LibResponse(200, "route " \o ToString(k), <<>>)
LibNotFound == LibResponse(404, "Not Found", <<Header("Content-Type", "text/plain")>>)

\* Server::get
lib_get ==
    /\ lib_pc = "setup"
    /\ Len(lib_routes) < MaxRoutes
    /\ \E p \in LibPaths :
          lib_routes' = Append(lib_routes, [method |-> LibGET, path |-> p,
                                            handler |-> Len(lib_routes) + 1])
    /\ UNCHANGED <<lib_pc, lib_stream, lib_res>>
    /\ UNCHANGED <<handling, building, limiting, streaming>>

\* Server::any
lib_any ==
    /\ lib_pc = "setup"
    /\ Len(lib_routes) < MaxRoutes
    /\ \E p \in LibPaths :
          lib_routes' = Append(lib_routes, [method |-> LibANY, path |-> p,
                                            handler |-> Len(lib_routes) + 1])
    /\ UNCHANGED <<lib_pc, lib_stream, lib_res>>
    /\ UNCHANGED <<handling, building, limiting, streaming>>

\* Server::start, up to the listener's loop
lib_start ==
    /\ lib_pc = "setup"
    /\ lib_pc' = "listen"
    /\ UNCHANGED <<lib_routes, lib_stream, lib_res>>
    /\ UNCHANGED <<handling, building, limiting, streaming>>

\* the test of line 214 for one route
LibRouteMatches(rt, req_method, req_path) ==
    MethodEq(req_method, rt.method)
        \/ (rt.method = LibANY /\ req_path = rt.path)

\* handle_connection: the routes are tried from the last registered on and
\* the first that passes the test answers; 404 if none does
handle_connection(rs, stream_string) ==
    LET req_method == get_request_method(stream_string)
        req_path == get_request_path(stream_string)
        hits == {k \in 1..Len(rs) : LibRouteMatches(rs[k], req_method, req_path)}
    IN  IF hits = {} THEN LibNotFound
        ELSE LibHandler(rs[CHOOSE k \in hits : \A j \in hits : j <= k].handler)

\* Server::start: a connection comes in and handle_connection answers it
lib_incoming ==
    /\ lib_pc = "listen"
    /\ \E raw \in LibStreams :
          /\ lib_stream' = raw
          /\ lib_res' = handle_connection(lib_routes, raw)
    /\ UNCHANGED <<lib_pc, lib_routes>>
    /\ UNCHANGED <<handling, building, limiting, streaming>>

NextLib ==
    \/ lib_get
    \/ lib_any
    \/ lib_start
    \/ lib_incoming

SpecLib == Init /\ [][NextLib]_vars

\* ------------------------------------------------------------------ the log

\* the positions of the log's events of one kind
Events(ev) == {k \in 1..Len(log) : log[k].ev = ev}
\* the responses written in this iteration
Writes == Cardinality(Events("write"))
\* every hook called so far in this iteration continued
HooksContinued ==
    \A k \in Events("pre") \cup Events("post") : log[k].out = "continue"

\* ------------------------------------------------------------------ claims

\* C1: once the response produced for a request has its close flag set, the
\* thread writes it, runs the end hooks and shuts the socket down, leaving
\* the loop: it never goes back to read on that connection, whether the
\* request asked for keep-alive or not.
C1_CloseTerminates ==
    [][ret.res.close =>
          /\ pc = "write" => pc' \in {"end", "decide"} /\ Cardinality(Events("write"))' = 1
          /\ pc = "end" => pc' \in {"end", "decide"}
          /\ pc = "decide" => Writes = 1 /\ socket' = "shutdown" /\ pc' = "listen"]_vars

\* C1 witness: a response with close set is about to end a connection whose
\* request asked for keep-alive
C1_Witness ==
    pc = "decide" /\ ret.res.close /\ parsed.ok /\ keep_alive_of(parsed.req)

\* C2: the loop goes round to read again exactly when the request parsed
\* with keep-alive semantics and the response produced does not set close;
\* an iteration that does not reach the test never reads again.
C2_KeepAliveIff ==
    [][/\ pc = "decide" =>
            (pc' = "read" <=>
                parsed.ok /\ keep_alive_of(parsed.req) /\ ~ret.res.close)
       /\ (pc' = "read" /\ pc # "listen") => pc = "decide"
       /\ (pc \in {"pre", "route", "post", "resolve", "write", "end"}
             /\ parsed.ok /\ keep_alive_of(parsed.req))
            => pc' # "panicked"]_vars

\* C2 witness: a second request is served on a connection and the loop will
\* go round once more
C2_Witness ==
    /\ served
    /\ pc = "decide"
    /\ Writes = 1
    /\ parsed.ok /\ keep_alive_of(parsed.req) /\ ~ret.res.close


\* a route handler panicked in this iteration
RoutePanicked == \E k \in Events("route") : log[k].out = "panic"
\* every post hook called so far in this iteration continued
PostContinued == \A k \in Events("post") : log[k].out = "continue"
\* the payload of the panic of the handler of route k
RoutePanicPayload(k) ==
    IF routes[k].kind = "Statefull" /\ state = "None" THEN "State not initialized"
    ELSE IF routes[k].handler = "greet" THEN "called Option::unwrap() on a None value"
    ELSE "route panic"
\* r is the panic handler's answer to payload msg (status 500 by default)
IsPanicResponse(r, msg) ==
    /\ r.data = IF error_handler = "default"
                THEN <<"Internal Server Error :/\nError: ", msg>>
                ELSE <<"Internal Server Error: ", msg>>
    /\ r.status = 500
    /\ ~r.close

\* C3 as stated: when the matched route handler panics the thread does not
\* unwind, one response is written, and that response is the panic handler's
\* answer to the handler's panic message.
C3_RoutePanicAsStated ==
    RoutePanicked =>
        /\ pc # "panicked"
        /\ pc \in {"end", "decide"} =>
              /\ Writes = 1
              /\ \E k \in Events("route") :
                    IsPanicResponse(ret.res, RoutePanicPayload(log[k].i))

\* C3 amended: when the matched route handler panics the thread does not
\* unwind and exactly one response, with a valid status, is written; it is
\* the panic handler's answer to the handler's panic message (status 500 by
\* default) whenever every post hook continues.
C3_RoutePanicHandled ==
    RoutePanicked =>
        /\ pc # "panicked"
        /\ pc \in {"end", "decide"} =>
              /\ Writes = 1
              /\ ret.res.status \in 100..599
              /\ PostContinued =>
                    \E k \in Events("route") :
                        IsPanicResponse(ret.res, RoutePanicPayload(log[k].i))

\* C3 witness: with a middleware attached whose post hook continued, the
\* panic handler's response to a route panic has been written
C3_Witness ==
    /\ pc = "decide"
    /\ RoutePanicked
    /\ Events("post") # {}
    /\ PostContinued
    /\ IsPanicResponse(ret.res, "route panic")

\* a hook of the phase panicked in this iteration
HookPanicked(phase) == \E k \in Events(phase) : log[k].out = "panic"

\* C4: when a pre or post hook panics, get_response returns at once (no hook
\* or route runs after it, the thread does not unwind) and the response it
\* returns, the one written, is the panic handler's answer to that payload.
C4_HookPanicHandled ==
    \A phase \in {"pre", "post"} :
        HookPanicked(phase) =>
            /\ pc \in {"write", "end", "decide"}
            /\ IsPanicResponse(ret.res, IF phase = "pre" THEN "pre panic" ELSE "post panic")
            /\ \A k \in Events(phase) :
                  log[k].out = "panic" =>
                      \A j \in (k + 1)..Len(log) : log[j].ev \in {"write", "end"}
            /\ pc \in {"end", "decide"} => Writes = 1

\* C4 witness: the response to a post hook's panic has been written after a
\* route handler had returned
C4_Witness ==
    /\ pc = "decide"
    /\ HookPanicked("post")
    /\ \E k \in Events("route") : log[k].out = "return"
    /\ Writes = 1


\* C5 as stated: whatever the parser returns and whatever hooks and handlers
\* do, no panic unwinds out of handle.
C5_NeverUnwinds == pc # "panicked"

\* the parser failed with a stream error in this iteration
StreamFailed == ~parsed.ok /\ parsed.err.kind = "Stream"

\* C6 as stated: after a stream error no response is written and the thread
\* does not unwind: it shuts the socket down and leaves the loop.
C6_StreamErrorClosesQuietly ==
    [][StreamFailed =>
          /\ Cardinality(Events("write"))' = 0
          /\ pc' # "panicked"
          /\ pc' \in {"listen", "read"} => socket' = "shutdown"]_vars

\* the parser failed with a ParseError in this iteration
ParseFailed == ~parsed.ok /\ parsed.err.kind = "Parse"
\* no hook called so far in this iteration put a response of its own in place
NoMiddlewareResponse ==
    \A k \in Events("pre") \cup Events("post") : log[k].out \notin {"abort", "add"}
\* the body that names each ParseError
C7_Body ==
    [NoSeparator |-> "No separator", NoMethod |-> "No method", NoPath |-> "No path",
     NoVersion |-> "No HTTP version", NoRequestLine |-> "No request line",
     InvalidQuery |-> "Invalid query", InvalidHeader |-> "Invalid header",
     InvalidMethod |-> "Invalid method"]
C7_Is400(r, e) ==
    /\ r.status = 400
    /\ r.data = <<C7_Body[e]>>
    /\ \A f \in ParseErrors \ {e} : r.data # <<C7_Body[f]>>

\* C7 as stated: a request that fails with a ParseError, when no middleware
\* sends its own response, is answered 400 with the body naming the error.
C7_ParseError400AsStated ==
    (ParseFailed /\ NoMiddlewareResponse /\ pc \in {"end", "decide"}) =>
        C7_Is400(ret.res, parsed.err.info)

\* C7 amended: a request that fails with a ParseError, when every middleware
\* hook continues (none sends or adds a response, replaces the request or
\* panics), is answered with exactly one response, of status 400 and with the
\* body naming the error, a different text for each variant.
C7_ParseError400 ==
    (ParseFailed /\ HooksContinued) =>
        /\ pc # "panicked"
        /\ pc \in {"end", "decide"} =>
              Writes = 1 /\ C7_Is400(ret.res, parsed.err.info)

\* C7 witness: with a middleware attached whose hooks continued, the 400 for
\* a request without a version has been written
C7_Witness ==
    /\ pc = "decide"
    /\ ParseFailed /\ parsed.err.info = "NoVersion"
    /\ Events("pre") # {} /\ Events("post") # {}
    /\ HooksContinued
    /\ ret.res.data = <<"No HTTP version">>

\* route rt is one for request r: its method is r's or ANY, its pattern matches r's path
C9_Matches(rt, r) ==
    /\ rt.method \in {r.method, ANY}
    /\ match_path(rt.path, r.path).some
\* the text "Cannot {method} {path}" for the paths the peers request
C8_Body(r) ==
    IF Len(r.path) = 1 THEN <<"Cannot ", r.method, " ", "/", r.path[1]>>
    ELSE <<"Cannot ", r.method, " ", "/", r.path[1], "/", r.path[2]>>
C8_Is404(r, q) == r.status = 404 /\ r.data = C8_Body(q)
\* the parsed request matches no registered route
C8_Unrouted ==
    parsed.ok /\ \A k \in 1..Len(routes) : ~C9_Matches(routes[k], parsed.req)

\* C8 as stated: a parsed request that matches no route, when no middleware
\* sends a response, is answered 404 "Cannot {method} {path}".
C8_NotFound404AsStated ==
    (C8_Unrouted /\ NoMiddlewareResponse /\ pc \in {"end", "decide"}) =>
        C8_Is404(ret.res, parsed.req)

\* C8 amended: a parsed request that matches no route, when every middleware
\* hook continues (none sends or adds a response, replaces the request or
\* panics), is answered with exactly one response, of status 404 and body
\* "Cannot {method} {path}" with the request's own method and path.
C8_NotFound404 ==
    (C8_Unrouted /\ HooksContinued) =>
        /\ pc # "panicked"
        /\ pc \in {"end", "decide"} =>
              Writes = 1 /\ C8_Is404(ret.res, parsed.req)

\* C8 witness: with a route registered and a middleware attached, the 404 for
\* a POST to /greet has been written
C8_Witness ==
    /\ pc = "decide"
    /\ routes # <<>> /\ middleware # <<>>
    /\ C8_Unrouted /\ HooksContinued
    /\ ret.res.data = <<"Cannot ", "POST", " ", "/", "greet">>


\* C9: the handler dispatch invokes is that of the most recently registered
\* route whose method is the request's or ANY and whose pattern matches the
\* path: no route registered after it matches; and when no handler is
\* invoked no route matches at all.
C9_LastRegisteredWins ==
    \A e \in Events("route") :
        LET k == log[e].i
        IN  /\ k \in 0..Len(routes)
            /\ k > 0 => C9_Matches(routes[k], req.req)
            /\ \A j \in (k + 1)..Len(routes) : ~C9_Matches(routes[j], req.req)

\* C9 witness: a POST was dispatched to an ANY route registered after another
\* route that matches the same request
C9_Witness ==
    \E e \in Events("route") :
        /\ log[e].i = 2
        /\ routes[2].method = ANY /\ req.req.method = POST
        /\ C9_Matches(routes[1], req.req)

\* C10: a handler registered with the pattern /greet/{name} is only ever run
\* for a path /greet/X with X non-empty, and with the path parameter name
\* bound to X (so the greet handler returns "Hello, X" and never panics on
\* an unbound name); and a request for such a path, dispatched while a route
\* with that pattern and a fitting method is registered, does reach a handler.
C10_GreetParam ==
    \A e \in Events("route") :
        LET k == log[e].i
            q == req.req
        IN  /\ (k > 0 /\ routes[k].path = GreetName) =>
                  /\ Len(q.path) = 2 /\ q.path[1] = "greet" /\ q.path[2] # ""
                  /\ q.path_params = << <<"name", q.path[2]>> >>
                  /\ routes[k].handler = "greet" =>
                        /\ log[e].out = "return"
                        /\ (e = Len(log) /\ pc \in {"post", "resolve"}) =>
                              /\ res.ok
                              /\ res.resp.data = <<"<h1>Hello, ", q.path[2], "</h1>">>
            /\ (/\ Len(q.path) = 2 /\ q.path[1] = "greet" /\ q.path[2] # ""
                /\ \E j \in 1..Len(routes) :
                      routes[j].path = GreetName /\ routes[j].method \in {q.method, ANY})
                  => k > 0

\* C10 witness: the greet handler has just returned its greeting for /greet/John
C10_Witness ==
    /\ pc \in {"post", "resolve"}
    /\ \E e \in Events("route") :
          /\ e = Len(log)
          /\ log[e].i > 0 /\ routes[log[e].i].handler = "greet"
          /\ req.req.path = <<"greet", "John">>
          /\ path_param(req.req, "name") = [some |-> TRUE, v |-> "John"]
          /\ res.ok /\ res.resp.data = <<"<h1>Hello, ", "John", "</h1>">>

\* the pre hook at log position a sent a response
PreAborted == \E a \in Events("pre") : log[a].out = "abort"
\* the route events of this iteration that invoked a handler
Dispatched == {e \in Events("route") : log[e].i > 0}

\* C11: the request's path_params are what the matched route's pattern bound
\* exactly when dispatch matched a route for it, and are still empty
\* otherwise; dispatch happens at most once per request, and the handler is
\* called with the parameters already in the request; a request a pre hook
\* answered and a parse result that is an error are never dispatched, and a
\* request that matches no route keeps empty parameters.
C11_ParamsWrittenOnMatch ==
    /\ Cardinality(Events("route")) <= 1
    /\ req.ok =>
          /\ \A e \in Dispatched :
                /\ req.req.path_params = match_path(routes[log[e].i].path, req.req.path).params
                /\ routes[log[e].i].handler = "greet" => log[e].out = "return"
          /\ Dispatched = {} => req.req.path_params = <<>>
    /\ (PreAborted \/ ~req.ok) => Events("route") = {}
    /\ ret.req.some => ret.req.req = req.req

\* C11 witness: after a pre hook continued, dispatch matched /greet/{name}
\* and the request now carries name = John
C11_Witness ==
    /\ \E a \in Events("pre") : log[a].out = "continue"
    /\ \E e \in Dispatched : routes[log[e].i].path = GreetName
    /\ req.ok /\ req.req.path_params = << <<"name", "John">> >>

\* the place of each event's phase in the order pre, dispatch, post, write, end
PhaseRank(ev) ==
    CASE ev = "pre" -> 1
      [] ev = "route" -> 2
      [] ev = "post" -> 3
      [] ev = "write" -> 4
      [] ev = "end" -> 5

\* C12: the events of one request are in phase order: no pre hook runs after
\* the route, the route never after a post hook, no hook of pre, route or
\* post after the write, and every end hook runs after the write.
C12_PhaseOrder ==
    /\ \A a, b \in 1..Len(log) :
          a < b => PhaseRank(log[a].ev) <= PhaseRank(log[b].ev)
    /\ \A e \in Events("end") : \E w \in Events("write") : w < e

\* C12 witness: one request went through a pre hook, its route, a post hook,
\* the write and an end hook
C12_Witness ==
    /\ pc = "decide"
    /\ \A ev \in {"pre", "route", "post", "write", "end"} : Events(ev) # {}

\* the phases that call middleware hooks
HookPhases == {"pre", "post", "end"}

\* C13: within each of the pre, post and end phases the hooks run in reverse
\* order of attachment: of two hooks of one phase, the one that ran first
\* belongs to the middleware attached later.
C13_ReverseAttachOrder ==
    \A a, b \in 1..Len(log) :
        (a < b /\ log[a].ev = log[b].ev /\ log[a].ev \in HookPhases)
            => log[a].i > log[b].i

\* C13 witness: two middleware are attached and both have run their pre,
\* post and end hooks for one request
C13_Witness ==
    /\ pc = "decide"
    /\ Len(middleware) = 2
    /\ \A ph \in HookPhases : Cardinality(Events(ph)) = 2

\* C14 as stated: the last-attached middleware runs first in the pre phase
\* and last in the post and end phases, after the post and end hooks of
\* every middleware attached before it
C14_LastAttachedLastOnPostEnd ==
    \A a, b \in 1..Len(log) :
        (log[a].ev = log[b].ev /\ log[a].i = Len(middleware) /\ log[b].i < Len(middleware))
            => IF log[a].ev = "pre" THEN a < b
               ELSE log[a].ev \in {"post", "end"} => b < a

\* C14: the last-attached middleware runs first in each of the pre, post and
\* end phases: a phase that runs at all starts with its hook, and the hooks
\* of the middleware attached before it run after it.
C14_LastAttachedFirst ==
    \A ph \in HookPhases :
        /\ \A a \in Events(ph) :
              (\A b \in Events(ph) : a <= b) => log[a].i = Len(middleware)
        /\ \A a, b \in Events(ph) :
              (log[a].i = Len(middleware) /\ log[b].i < Len(middleware)) => a < b

\* C14 witness: with two middleware attached, the post and end hooks of the
\* first-attached one have run after those of the last-attached one
C14_Witness ==
    /\ Len(middleware) = 2
    /\ \A ph \in {"post", "end"} :
          \E a, b \in Events(ph) : a < b /\ log[a].i = 2 /\ log[b].i = 1

\* the responses middleware i may send from a hook of the given phase
Sent(phase, i) == {MwResponse(phase, i, cl) : cl \in BOOLEAN}

\* C15: after a pre hook aborted with a response, no other pre hook and no
\* route handler runs for the request, and the response it sent is the
\* request's result: it is what the post hooks are handed and, when they all
\* continue, what get_response returns to be written.
C15_PreAbortShortCircuits ==
    \A a \in Events("pre") :
        log[a].out = "abort" =>
            /\ \A b \in (a + 1)..Len(log) : log[b].ev \notin {"pre", "route"}
            /\ pc \notin {"pre", "panicked"}
            /\ (pc \in {"route", "post", "resolve"} /\ PostContinued) =>
                  res.ok /\ res.resp \in Sent("pre", log[a].i)
            /\ (pc \in {"write", "end", "decide"} /\ PostContinued) =>
                  ret.res \in Sent("pre", log[a].i)

\* C15 witness: the last-attached of two middleware aborted in pre, the post
\* hooks continued and its response was written
C15_Witness ==
    /\ Len(middleware) = 2 /\ routes # <<>>
    /\ pc = "decide"
    /\ \E a \in Events("pre") : log[a].out = "abort" /\ log[a].i = 2
    /\ Cardinality(Events("post")) = 2 /\ PostContinued
    /\ ret.res \in Sent("pre", 2)

\* C16: after a post hook aborted with a response, no other post hook runs
\* for the request and get_response has returned that very response: it is
\* the one written to the socket.
C16_PostAbortShortCircuits ==
    \A a \in Events("post") :
        log[a].out = "abort" =>
            /\ \A b \in (a + 1)..Len(log) : log[b].ev \in {"write", "end"}
            /\ pc \in {"write", "end", "decide"}
            /\ ret.res \in Sent("post", log[a].i)
            /\ pc # "write" => Writes = 1 /\ closeFlag = ret.res.close

\* C16 witness: the last-attached of two middleware aborted in post and its
\* response has been written
C16_Witness ==
    /\ Len(middleware) = 2
    /\ \E a \in Events("post") : log[a].out = "abort" /\ log[a].i = 2
    /\ Writes = 1
    /\ ret.res \in Sent("post", 2)

\* every attached middleware had its end hook called exactly once, after the write
EndHooksRan ==
    /\ Cardinality(Events("end")) = Len(middleware)
    /\ \A m \in 1..Len(middleware) :
          \E e \in Events("end") :
              /\ log[e].i = middleware[m]
              /\ \E w \in Events("write") : w < e

\* C17: when the iteration of a request that parsed successfully is over,
\* every attached middleware's end hook has been called exactly once, after
\* the write, whatever the response was.
C17_EndHooksAlwaysRun ==
    (pc = "decide" /\ parsed.ok) => EndHooksRan

\* C18: an end hook that panics changes nothing but the log: the end loop
\* goes on to the next middleware, every middleware's end hook is called,
\* and the iteration ends as line 54 decides from keep_alive and the
\* response's close flag alone.
C18_EndPanicDiscarded ==
    [][/\ pc = "end" =>
             /\ pc' = IF idx > 1 THEN "end" ELSE "decide"
             /\ idx' = idx - 1
             /\ <<keep_alive, closeFlag, ret, socket>>' = <<keep_alive, closeFlag, ret, socket>>
       /\ (pc = "decide" /\ endPanicked) =>
             /\ EndHooksRan
             /\ closeFlag = ret.res.close
             /\ IF keep_alive /\ ~closeFlag
                THEN pc' = "read" /\ socket' = socket
                ELSE pc' = "listen" /\ socket' = "shutdown"]_vars

\* C18 witness: with two middleware attached an end hook panicked, both end
\* hooks were called and the connection is about to be kept alive
C18_Witness ==
    /\ pc = "decide" /\ endPanicked
    /\ Len(middleware) = 2 /\ Cardinality(Events("end")) = 2
    /\ keep_alive /\ ~closeFlag

Named(hs, name) == {k \in 1..Len(hs) : hs[k][1] = name}
\* a response has been put on the socket in this iteration
Written == Writes = 1 /\ pc \in {"end", "decide"}

\* C21: every header of the response and every default header is among the
\* headers written, and a Content-Type the response carries is written as
\* it is and only as often as the response carries it, whatever default
\* headers the server has.
C21_HeadersMerged ==
    Written =>
        /\ \A k \in 1..Len(ret.res.headers) :
              \E j \in 1..Len(wire.headers) : wire.headers[j] = ret.res.headers[k]
        /\ \A k \in 1..Len(default_headers) :
              \E j \in 1..Len(wire.headers) : wire.headers[j] = default_headers[k]
        /\ Named(ret.res.headers, "Content-Type") # {} =>
              /\ Cardinality(Named(wire.headers, "Content-Type"))
                    = Cardinality(Named(ret.res.headers, "Content-Type"))
              /\ \A j \in Named(wire.headers, "Content-Type") :
                    \E k \in Named(ret.res.headers, "Content-Type") :
                        wire.headers[j] = ret.res.headers[k]

\* C22: the headers written are the response's own headers in their order,
\* then the default headers in the order they were configured, then
\* Content-Length.
C22_DefaultsAppended ==
    Written =>
        /\ Len(wire.headers) = Len(ret.res.headers) + Len(default_headers) + 1
        /\ SubSeq(wire.headers, 1, Len(ret.res.headers)) = ret.res.headers
        /\ SubSeq(wire.headers, Len(ret.res.headers) + 1,
                  Len(ret.res.headers) + Len(default_headers)) = default_headers
        /\ wire.headers[Len(wire.headers)][1] = "Content-Length"

\* C22 witness: the greeting with its Content-Type was written on a server
\* with two default headers
C22_Witness ==
    /\ Written
    /\ Len(default_headers) = 2
    /\ ret.res.headers = <<Header("Content-Type", "text/html")>>
    /\ wire.headers[1] = Header("Content-Type", "text/html")
    /\ wire.headers[2] = ServerHeader

\* C26: a server with a state-carrying route and no state never serves: no
\* request is dispatched to such a route while the state is missing, so no
\* response is ever caused by the missing state.
C26_NoStateNeverServes ==
    \A e \in Dispatched :
        routes[log[e].i].kind = "Statefull" => state = "Some"

\* the write of this iteration returned an error
WriteFailed == \E w \in Events("write") : log[w].out = "failed"

\* C27: after a failed write the thread shuts the socket down and leaves the
\* loop: it does not go back to read on that connection.
C27_WriteFailureTerminates ==
    [][(pc = "decide" /\ WriteFailed) => (socket' = "shutdown" /\ pc' = "listen")]_vars

Fields == {"status", "data", "headers", "reason", "close"}
\* two responses agree on every field but those of fs
SameBut(a, b, fs) == \A f \in Fields \ fs : a[f] = b[f]

\* C29: each builder call sets its own field to the value it was given
\* (close to true; header, headers and content push what they were given at
\* the end of the header list, keeping what was there, duplicates too) and
\* leaves every other field as it was.
C29_BuildersFrame ==
    /\ op.name = "new" => built = ResponseNew
    /\ op.name = "status" => built.status = op.arg /\ SameBut(built, prior, {"status"})
    /\ op.name = "reason" => built.reason = <<op.arg>> /\ SameBut(built, prior, {"reason"})
    /\ op.name \in {"text", "bytes"} => built.data = op.arg /\ SameBut(built, prior, {"data"})
    /\ op.name = "close" => built.close /\ SameBut(built, prior, {"close"})
    /\ op.name = "header" =>
          /\ built.headers = prior.headers \o <<op.arg>>
          /\ SameBut(built, prior, {"headers"})
    /\ op.name = "headers" =>
          /\ built.headers = prior.headers \o op.arg
          /\ SameBut(built, prior, {"headers"})
    /\ op.name = "content" =>
          /\ built.headers = prior.headers \o <<Header("Content-Type", op.arg)>>
          /\ SameBut(built, prior, {"headers"})

\* C29 witness: header was called with a name the response already carries,
\* on a response whose other fields had all been set
C29_Witness ==
    /\ op.name = "header"
    /\ \E k \in 1..Len(prior.headers) : prior.headers[k][1] = op.arg[1]
    /\ Len(built.headers) = Len(prior.headers) + 1
    /\ built.status = 404 /\ built.reason = <<"Good">> /\ built.close
    /\ built.data = <<"Hello World">>

\* ------------------------------------------------------------------ C23

\* a thread's request goes through the limiter's pre hook in this step
LimiterDecides(t) == tpc[t] = "pre" /\ tpc'[t] = "respond"

\* the window opened by the last reset is still running
InWindow == now < last_reset + ReqTimeout

\* C23: with a limiter of limit ReqLimit on a server that handles its
\* connections one after another, a client's request made within the window
\* passes the pre hook while fewer than ReqLimit of its requests were handled
\* since the reset, and gets the over-limit response once ReqLimit of them were.
C23_LimitedAfterN ==
    [][\A t \in Threads :
          (mode = "start" /\ LimiterDecides(t) /\ InWindow)
              => ((verdict'[t] = "limited") <=> (handled[tip[t]] >= ReqLimit))]_vars

\* ------------------------------------------------------------------ C24

\* C24: once ReqTimeout seconds have gone by since the last reset, a request
\* passes the limiter's pre hook, whatever its client's count was.
C24_ServedAfterWindow ==
    [][\A t \in Threads :
          (LimiterDecides(t) /\ ~InWindow) => verdict'[t] = "passed"]_vars

\* ------------------------------------------------------------------ C25

\* C25: under every interleaving of the threads' end hooks, a client's
\* counter equals the number of add_request calls completed for it since the
\* last reset.
C25_NoLostUpdate == \A ip \in Clients : requests[ip] = added[ip]

\* one thread is inside add_request for a client whose counter was already
\* incremented, while another thread waits to enter it for the same client
C25_Witness ==
    \E t1, t2 \in Threads :
        /\ t1 # t2
        /\ tip[t1] = tip[t2]
        /\ tpc[t1] = "insert"
        /\ lock = t1
        /\ tpc[t2] = "add"
        /\ added[tip[t1]] >= 1

\* ------------------------------------------------------------------ C28

\* C28 as stated: the thread that accepts connections never runs handle,
\* whichever way the server was started.
C28_AcceptorNeverHandles == tpc[0] = "idle"

\* C28 amended: under start_threaded the accepting thread never runs handle,
\* and it can queue the next connection whatever the workers are doing, as
\* long as the queue has room.
C28_ThreadedAcceptorOnlyEnqueues ==
    mode = "start_threaded" =>
        /\ tpc[0] = "idle"
        /\ Len(queue) < MaxQueue => ENABLED incoming_threaded

\* every worker is in the middle of a connection and another one is queued
C28_Witness ==
    /\ mode = "start_threaded"
    /\ \A t \in Workers : tpc[t] # "idle"
    /\ queue # <<>>

\* ------------------------------------------------------------------ C35

\* a pre hook of this iteration panicked
PrePanicked == \E a \in Events("pre") : log[a].out = "panic"
\* a pre hook of this iteration put a request in place of the one it was lent
PreReplaced == \E a \in Events("pre") : log[a].out = "replace"
\* the post loop is over
PostOver == pc \in {"resolve", "write", "end", "decide", "panicked"}
\* every middleware's post hook was called, or one of them sent or panicked
PostPhaseRan ==
    \/ \E p \in Events("post") : log[p].out \in {"abort", "panic"}
    \/ Cardinality(Events("post")) = Len(middleware)

\* C35 as stated: when no pre hook panicked the post loop runs to its end or
\* to the first hook that sends, and for a request a pre hook answered and
\* for a request that failed to parse no route handler was invoked.
C35_PostPhaseAsStated ==
    (PostOver /\ ~PrePanicked) =>
        /\ PostPhaseRan
        /\ (PreAborted \/ ~parsed.ok) => Dispatched = {}

\* C35 amended: when no pre hook panicked the post loop runs to its end or to
\* the first hook that sends.  For a request a pre hook answered, and for a
\* request that failed to parse and that no pre hook replaced, no route
\* handler was invoked, and each post hook is handed the request result and
\* the result in flight: the pre hook's response, or the request's error
\* with the absent response.
C35_PostPhaseRuns ==
    /\ (PostOver /\ ~PrePanicked) =>
          /\ PostPhaseRan
          /\ (PreAborted \/ (~parsed.ok /\ ~PreReplaced)) => Dispatched = {}
    /\ (pc = "post" /\ Events("post") = {}) =>
          /\ PreAborted =>
                \E a \in Events("pre") : res.ok /\ res.resp \in Sent("pre", log[a].i)
          /\ (~parsed.ok /\ ~PreReplaced) =>
                /\ req = parsed
                /\ ~PreAborted => res = ErrRes(ErrorNone)

\* C35 witness: both post hooks ran for a request that failed to parse and
\* that the pre hooks left as it was
C35_Witness ==
    /\ pc = "decide"
    /\ ParseFailed
    /\ Len(middleware) = 2
    /\ Cardinality(Events("pre")) = 2
    /\ ~PreReplaced /\ ~PreAborted
    /\ Cardinality(Events("post")) = 2
    /\ Dispatched = {}

\* ------------------------------------------------------------------ C36

\* get_response, lines 107-115: the error handed to error_response
ResolvedError == IF ~req.ok THEN req.err ELSE res.err

\* C36 as stated: the error get_response converts is never the absent
\* response or a startup error; it is the parser's error if parsing failed,
\* and otherwise the NotFound or Panic of dispatch.
C36_ResolvedErrorAsStated ==
    (pc = "resolve" /\ ~res.ok) =>
        /\ ResolvedError.kind \notin {"None", "Startup"}
        /\ IF ~parsed.ok
           THEN ResolvedError = parsed.err
           ELSE ResolvedError.kind \in {"NotFound", "Panic"}

\* C36 amended: the error get_response converts is never the absent response
\* or a startup error; it is the parser's error if the request is still an
\* error after the pre hooks, and otherwise the NotFound or Panic of the
\* dispatch of this iteration.
C36_ResolvedError ==
    (pc = "resolve" /\ ~res.ok) =>
        /\ ResolvedError.kind \notin {"None", "Startup"}
        /\ IF ~req.ok
           THEN ~parsed.ok /\ ResolvedError = parsed.err
           ELSE /\ ResolvedError.kind \in {"NotFound", "Panic"}
                /\ \E e \in Events("route") :
                      log[e].out = (IF ResolvedError.kind = "Panic" THEN "panic" ELSE "none")

\* C36 witness: a request that failed to parse was replaced by a pre hook,
\* matched no route, and the post hook left the NotFound in place
C36_Witness ==
    /\ pc = "resolve"
    /\ ~res.ok
    /\ ParseFailed /\ PreReplaced
    /\ Events("post") # {}
    /\ ResolvedError.kind = "NotFound"

\* ------------------------------------------------------------------ C37

\* C37 as stated: in the iteration of a request that failed to parse no route
\* handler is invoked, and the iteration ends with the socket shut down and
\* the loop left.
C37_ParseFailureAsStated ==
    [][ParseFailed =>
          /\ Dispatched = {}
          /\ pc = "decide" => socket' = "shutdown" /\ pc' = "listen"]_vars

\* C37 amended: in the iteration of a request that failed to parse no route
\* handler is invoked unless a pre hook replaced the request, and in every
\* case the iteration ends with the socket shut down and the loop left.
C37_ParseFailureCloses ==
    [][ParseFailed =>
          /\ ~PreReplaced => Dispatched = {}
          /\ pc = "decide" => socket' = "shutdown" /\ pc' = "listen"]_vars

\* C37 witness: the response a pre hook sent for a request that failed to
\* parse, with its close flag unset, has been written
C37_Witness ==
    /\ pc = "decide"
    /\ ParseFailed
    /\ PreAborted
    /\ Writes = 1
    /\ ~ret.res.close /\ ~closeFlag

\* ------------------------------------------------------------------ C38

\* the thread keeps running while it has a step to take
FairSpec == Spec /\ WF_vars(Next)

\* the peer has closed the connection: the read found the stream at its end
PeerClosed == parsed = StreamEnd

\* C38: once the read has found the stream closed by the peer, the thread
\* eventually shuts the socket down and is back in the accept loop, free
\* for the next connection.
C38_PeerCloseTerminates ==
    (PeerClosed /\ pc \in {"pre", "route"}) ~> (socket = "shutdown" /\ pc = "listen")

\* ------------------------------------------------------------------ C33

\* C33: whatever the interleaving of the threads, for a client whose
\* answered requests were all counted, at most ReqLimit requests have passed
\* the limiter's pre hook since the table was last cleared.
C33_AtMostNPass ==
    \A ip \in Clients : handled[ip] = added[ip] => passes[ip] <= ReqLimit

\* ------------------------------------------------------------------ C34

\* thread t clears the table in this step
Clears(t) == tpc[t] = "clear" /\ tpc'[t] = "store"

\* C34: a table that holds a counted request is only cleared once
\* ReqTimeout seconds have gone by since the last reset.
C34_OneClearPerWindow ==
    [][\A t \in Threads :
          (Clears(t) /\ \E ip \in Clients : requests[ip] > 0) => ~InWindow]_vars

\* ------------------------------------------------------------------ C31

\* C31: a write of the worker that fails is its last step, and after a
\* failed write nothing more is written or tried: the worker has stopped.
C31_WriterStopsOnError ==
    [][/\ werrors' > werrors => worker' = "done"
       /\ werrors > 0 => sent' = sent /\ werrors' = werrors]_vars

\* ------------------------------------------------------------------ C32

\* the routes that the request read has both the method (or ANY) and the path of
LibBothMatch ==
    {k \in 1..Len(lib_routes) :
        /\ \/ MethodEq(get_request_method(lib_stream), lib_routes[k].method)
           \/ lib_routes[k].method = LibANY
        /\ get_request_path(lib_stream) = lib_routes[k].path}

\* C32: the response of handle_connection is that of the last registered
\* route whose method is the request's or ANY and whose path is the
\* request's, and the 404 "Not Found" when there is no such route.
C32_LastMatchingRoute ==
    (lib_pc = "listen" /\ lib_stream # <<>>) =>
        lib_res = IF LibBothMatch = {} THEN LibNotFound
                  ELSE LibHandler(CHOOSE k \in LibBothMatch : \A j \in LibBothMatch : j <= k)

====
